---- MODULE Spec2Model ----
(***************************************************************************)
(* Canary kernel: physical frame allocator (memory/frame.rs), page model   *)
(* (memory/page.rs), the boot information they consume (multiboot.rs) and  *)
(* the VGA text driver (driver/vga.rs).                                    *)
(***************************************************************************)
EXTENDS Integers, Naturals, Sequences, FiniteSets, TLC

VARIABLES allocator, other, returned, otherReturned, last, panicked,
          page, indices, entry, entryOp, mem, table, tableOp,
          writer, vgaOp

vars == <<allocator, other, returned, otherReturned, last, panicked,
          page, indices, entry, entryOp, mem, table, tableOp,
          writer, vgaOp>>

allocVars == <<allocator, other, returned, otherReturned, last, panicked>>
entryVars == <<entry, entryOp>>
tableVars == <<mem, table, tableOp>>
vgaVars == <<writer, vgaOp>>
pageVars == <<page, indices, entryVars, tableVars, vgaVars>>

----------------------------------------------------------------------------
(* Bounds of the explored inputs.                                          *)

\* memory map entries per boot
MaxAreas == 2
\* allocator calls per run
MaxCalls == 5
\* allocator calls in the 1 MiB scenario
ScenarioCalls == 259
\* recursion depth after which an allocate() call is reported as diverged
MaxRetries == 8

----------------------------------------------------------------------------
(* memory/frame.rs                                                         *)

FRAME_SIZE == 4096

\* Option<Frame>
Some(id) == [some |-> TRUE, id |-> id]
None == [some |-> FALSE, id |-> 0]

Frame_containing(address) == address \div FRAME_SIZE

\* multiboot.rs: MemoryArea::kind, 1 is usable, everything else unusable
MemoryArea_kind(area) == IF area.kind = 1 THEN "Usable" ELSE "Unusable"

Region_from_multiboot_info(info) ==
    [start |-> Frame_containing(info.start),
     end   |-> Frame_containing(info.start + info.size - 1)]

SetMin(S) == CHOOSE x \in S : \A y \in S : x <= y
SetMax(S) == CHOOSE x \in S : \A y \in S : x >= y

Region_from_kernel_sections(sections) ==
    LET kernel_start == SetMin({sections[i].address : i \in DOMAIN sections})
        kernel_end   == SetMax({sections[i].address + sections[i].size :
                                  i \in DOMAIN sections})
    IN  [start |-> Frame_containing(kernel_start),
         end   |-> Frame_containing(kernel_end)]

Region_contains_open(region, frame) ==
    frame >= region.start /\ frame < region.end

Region_contains(region, frame) ==
    frame >= region.start /\ frame <= region.end

\* the frame after the last byte of a memory area
AreaLimit_next(area) == Frame_containing(area.address + area.length)

\* the last frame of a memory area (frame.rs:137-138 and 183-184)
AreaLimit(area) == Frame_containing(area.address + area.length - 1)

\* Iterator::min_by_key over the filtered areas: the first of the areas with
\* the lowest start address, 0 when the filter leaves nothing (None)
MinByStart_first(areas, cands) ==
    IF cands = {} THEN 0 ELSE SetMin(cands)

MinByStart(areas, cands) ==
    IF cands = {} THEN 0
    ELSE CHOOSE i \in cands :
            \A j \in cands :
                \/ areas[i].address < areas[j].address
                \/ areas[i].address = areas[j].address /\ i <= j

advance_memory_area(a) ==
    LET areas == a.memory_areas
        cands == {i \in DOMAIN areas : AreaLimit(areas[i]) >= a.next_free_frame}
        cur   == MinByStart(areas, cands)
        start_frame == Frame_containing(areas[cur].address)
    IN  IF cur = 0
        THEN [a EXCEPT !.current_area = 0]
        ELSE IF a.next_free_frame < start_frame
             THEN [a EXCEPT !.current_area = cur, !.next_free_frame = start_frame]
             ELSE [a EXCEPT !.current_area = cur]

\* the frame the cursor is moved to when it lies in an invalid region
AfterRegion_end(region) == region.end

AfterRegion_skip(region) == region.end + 2

AfterRegion(region) == region.end + 1

\* returns the allocator and the bool of the source
within_invalid_region(a) ==
    LET hits == {i \in DOMAIN a.invalid_regions :
                    Region_contains(a.invalid_regions[i], a.next_free_frame)}
    IN  IF hits = {}
        THEN [alloc |-> a, hit |-> FALSE]
        ELSE [alloc |-> [a EXCEPT !.next_free_frame =
                            AfterRegion(a.invalid_regions[SetMin(hits)])],
              hit |-> TRUE]

\* self.next_free_frame.id += 1
NextFrame_same(id) == id

NextFrame(id) == id + 1

\* the else branch of allocate(): no current area, None is returned
OutOfMemory_restart(a, retries) ==
    [alloc |-> advance_memory_area([a EXCEPT !.next_free_frame = 0]),
     result |-> None, retries |-> retries, outcome |-> "none"]

OutOfMemory(a, retries) ==
    [alloc |-> a, result |-> None, retries |-> retries, outcome |-> "none"]

\* allocate() with the number of recursive calls it has made so far; a call
\* that recurses more than MaxRetries times is reported as "diverged"
RECURSIVE allocate_rec(_, _)
allocate_rec(a, retries) ==
    IF retries > MaxRetries
    THEN [alloc |-> a, result |-> None, retries |-> retries, outcome |-> "diverged"]
    ELSE IF a.current_area # 0
    THEN LET current_area == a.memory_areas[a.current_area]
             area_limit == AreaLimit(current_area)
             w == within_invalid_region(a)
         IN  IF a.next_free_frame > area_limit
             THEN allocate_rec(advance_memory_area(a), retries + 1)
             ELSE IF w.hit
             THEN allocate_rec(w.alloc, retries + 1)
             ELSE [alloc |-> [a EXCEPT !.next_free_frame = NextFrame(@)],
                   result |-> Some(a.next_free_frame),
                   retries |-> retries, outcome |-> "frame"]
    ELSE OutOfMemory(a, retries)

allocate(a) == allocate_rec(a, 0)

BumpAllocator_new(info, areas, sections) ==
    advance_memory_area(
        [next_free_frame |-> Frame_containing(0),
         memory_areas    |-> areas,
         current_area    |-> 0,
         invalid_regions |-> <<Region_from_multiboot_info(info),
                               Region_from_kernel_sections(sections)>>])

\* unimplemented!(): the call panics, the allocator is left as it was
deallocate_reuse(a, frame) ==
    [alloc |-> [a EXCEPT !.next_free_frame = frame], panicked |-> FALSE]

deallocate(a, frame) == [alloc |-> a, panicked |-> TRUE]

----------------------------------------------------------------------------
(* memory/page.rs: a usize is the set of the positions of its one bits     *)

WordBits == 0..63

Shl(w, k) == {b + k : b \in w} \cap WordBits
Shr(w, k) == {b - k : b \in {x \in w : x >= k}}
BitAnd(w, m) == w \cap m
BitOr(w, v) == w \cup v

\* 0x1ff
Mask1ff == 0..8

\* address / PAGE_SIZE, PAGE_SIZE = 4096 = 2^12
Page_containing(address) == Shr(address, 12)

\* self.id << 12
Page_start(id) == Shl(id, 12)

\* (self.id >> (level * 9)) & 0x1ff
page_table_index(id, level) == BitAnd(Shr(id, level * 9), Mask1ff)

\* Frame::containing on an address given by its bits
Frame_containing_bits(address) == Shr(address, 12)

\* Frame::start(), the physical address of the frame: id * 4096
Frame_start(id) == Shl(id, 12)

\* Option<Frame> of a frame given by its bits
NoFrame == [some |-> FALSE, id |-> {}]

ENTRY_PRESENT == {0}
ENTRY_HUGE == {7}
ENTRY_WRITABLE == {1}

\* 0x000ffffffffff000
AddrMask_short == 12..47

AddrMask == 12..51

Entry_set(e, frame, flags) == BitOr(Frame_start(frame), flags)

Entry_is_unused(e) == e = {}

Entry_set_unused_present(e) == e \ ENTRY_PRESENT

Entry_set_unused(e) == {}

Entry_is_present(e) == BitAnd(e, ENTRY_PRESENT) = ENTRY_PRESENT

Entry_is_huge(e) == BitAnd(e, ENTRY_HUGE) = ENTRY_HUGE

Entry_pointed_frame_nohuge(e) ==
    IF Entry_is_present(e) /\ ~Entry_is_huge(e)
    THEN Some(Frame_containing_bits(BitAnd(e, AddrMask)))
    ELSE NoFrame

Entry_pointed_frame(e) ==
    IF Entry_is_present(e)
    THEN Some(Frame_containing_bits(BitAnd(e, AddrMask)))
    ELSE NoFrame

\* a small number and the word that holds it
RECURSIVE BitsToNat(_)
BitsToNat(w) ==
    IF w = {} THEN 0
    ELSE LET b == CHOOSE x \in w : TRUE IN 2 ^ b + BitsToNat(w \ {b})

NatToBits(n) == {b \in 0..20 : (n \div (2 ^ b)) % 2 = 1}

\* PAGE_SIZE / 8
ENTRY_COUNT == 512

Indices == 0..(ENTRY_COUNT - 1)

\* Table<L>: 512 entries; a table whose entries are all unused
ZeroTable == [i \in Indices |-> {}]

\* Table::set_all_unused
set_all_unused_keep(t) == t

set_all_unused(t) == [i \in Indices |-> Entry_set_unused(t[i])]

\* A table is held by its virtual address and its level. The memory m gives
\* the entries of each physical frame that holds a table. The processor
\* resolves a virtual address from the top level table (frame P4Frame) by
\* the four 9 bit indices of the address; an entry that is not present, or
\* that leads out of the frames of m, is a page fault (0).
P4Frame == 1

VaddrIndex(addr, level) ==
    BitsToNat(BitAnd(Shr(addr, 12 + 9 * (level - 1)), Mask1ff))

FrameNumber(w) == IF w \subseteq 0..15 THEN BitsToNat(w) ELSE 0

RECURSIVE Resolve(_, _, _, _)
Resolve(m, frame, addr, level) ==
    IF level = 0 THEN frame
    ELSE IF frame \notin DOMAIN m THEN 0
    ELSE LET e == m[frame][VaddrIndex(addr, level)]
         IN  IF ~Entry_is_present(e) THEN 0
             ELSE Resolve(m, FrameNumber(Entry_pointed_frame(e).id), addr, level - 1)

\* the frame behind the virtual address of a table
TableFrame(m, addr) ==
    LET f == Resolve(m, P4Frame, addr, 4)
    IN  IF f \in DOMAIN m THEN f ELSE 0

\* ActiveDirectory::current: the top level table at 0xfffffffffffff000
P4Table == [addr |-> 12..63, level |-> 4]

NoTable == [some |-> FALSE, addr |-> {}, level |-> 0]
SomeTable(addr, level) == [some |-> TRUE, addr |-> addr, level |-> level]

\* (table_address << 9) | (index << 12)
index_addr_unchecked_wide(t, index) ==
    BitOr(Shl(t.addr, 12), Shl(NatToBits(index), 12))

index_addr_unchecked(t, index) ==
    BitOr(Shl(t.addr, 9), Shl(NatToBits(index), 12))

\* the lower table exists: present and not huge
HasTable_present(e) == Entry_is_present(e)

HasTable(e) == Entry_is_present(e) /\ ~Entry_is_huge(e)

index_addr(m, t, index) ==
    LET e == m[TableFrame(m, t.addr)][index]
    IN  IF HasTable(e)
        THEN SomeTable(index_addr_unchecked(t, index), t.level - 1)
        ELSE NoTable

\* Table::index and Table::index_mut
Table_index(m, t, index) == index_addr(m, t, index)

\* the flags of the entry of a new table
NewTableFlags_present == ENTRY_PRESENT

NewTableFlags == BitOr(ENTRY_PRESENT, ENTRY_WRITABLE)

\* Table::create when index_addr finds a table: the address is returned, the
\* allocator is not called
CreateOnFound_allocate(m, a, found) ==
    [mem |-> m, alloc |-> allocate(a).alloc, result |-> found,
     outcome |-> "found", frame |-> 0]

CreateOnFound(m, a, found) ==
    [mem |-> m, alloc |-> a, result |-> found, outcome |-> "found",
     frame |-> 0]

\* create() where the entry is set before the frame is asked for
CreateOnNone_early(m, a, t, index) ==
    [mem |-> [m EXCEPT ![TableFrame(m, t.addr)][index] = NewTableFlags],
     alloc |-> a, result |-> NoTable, outcome |-> "panic", frame |-> 0]

\* allocator.allocate().expect("out of memory") on None
CreateOnNone(m, a, t, index) ==
    [mem |-> m, alloc |-> a, result |-> NoTable, outcome |-> "panic",
     frame |-> 0]

\* Table::create: the memory, the allocator, the table returned and how the
\* call ended ("found", "created", "panic", or "fault" when the new table
\* cannot be reached)
Table_create(m, a, t, index) ==
    LET found == index_addr(m, t, index)
        r == allocate(a)
        parent == TableFrame(m, t.addr)
        m1 == [m EXCEPT ![parent][index] =
                   Entry_set(@, NatToBits(r.result.id), NewTableFlags)]
        addr == index_addr_unchecked(t, index)
        f == TableFrame(m1, addr)
    IN  IF found.some
        THEN CreateOnFound(m, a, found)
        ELSE IF ~r.result.some
        THEN CreateOnNone(m, r.alloc, t, index)
        ELSE IF f = 0
        THEN [mem |-> m1, alloc |-> r.alloc, result |-> NoTable,
              outcome |-> "fault", frame |-> r.result.id]
        ELSE [mem |-> [m1 EXCEPT ![f] = set_all_unused(@)], alloc |-> r.alloc,
              result |-> SomeTable(addr, t.level - 1), outcome |-> "created",
              frame |-> r.result.id]

\* ActiveDirectory::map, map_to_any, identity_map and unmap: the bodies are
\* empty, the memory and the allocator are returned as they were
ActiveDirectory_map(m, a, pg, frame, flags) == [mem |-> m, alloc |-> a]

ActiveDirectory_map_to_any(m, a, pg, flags) == [mem |-> m, alloc |-> a]

ActiveDirectory_identity_map(m, a, frame, flags) == [mem |-> m, alloc |-> a]

ActiveDirectory_unmap_clear(m, a, pg) ==
    [mem |-> [m EXCEPT ![P4Frame][VaddrIndex(Page_start(pg), 4)] = {}],
     alloc |-> a]

ActiveDirectory_unmap(m, a, pg) == [mem |-> m, alloc |-> a]

NoTableOp == [op |-> "none", index |-> 0, result |-> NoTable,
              outcome |-> "none", frame |-> 0, pg |-> {}, arg |-> {},
              flags |-> {}, mapped |-> NoFrame, stale |-> {}]

----------------------------------------------------------------------------
(* VGA text driver (driver/vga.rs)                                         *)

TERM_WIDTH == 80
TERM_HEIGHT == 25

Columns == 0..(TERM_WIDTH - 1)
Rows == 0..(TERM_HEIGHT - 1)

\* Color::Black, Color::LightGray and Color::White as u8
Black == 0
LightGray == 7
White == 15

\* CombinedColor::new: (background as u8) << 4 | (foreground as u8)
CombinedColor_new(foreground, background) ==
    ((background * 16) % 256) + foreground

\* b'\n' and b' '
Newline == 10
Space == 32

Cell(character, color) == [character |-> character, color |-> color]

\* Writer::vga over a buffer: cursor at the origin, white on black
Writer_vga(buffer) ==
    [cursor |-> [x |-> 0, y |-> 0, color |-> CombinedColor_new(White, Black)],
     buffer |-> buffer]

\* the operations return the writer and whether the call ran to its end;
\* ok is FALSE where an array index is outside the buffer or a usize
\* subtraction goes below zero (the call panics)
Done(w) == [w |-> w, ok |-> TRUE]
Panic(w) == [w |-> w, ok |-> FALSE]

clear_row(w, y) ==
    IF y \notin Rows THEN Panic(w)
    ELSE Done([w EXCEPT !.buffer[y] =
                  [x \in Columns |-> Cell(Space, w.cursor.color)]])

RECURSIVE clear_rows(_, _)
clear_rows(w, ys) ==
    IF ys = {} THEN Done(w)
    ELSE LET y == SetMin(ys)
             c == clear_row(w, y)
         IN  IF c.ok THEN clear_rows(c.w, ys \ {y}) ELSE c

clear_screen(w) == clear_rows(w, Rows)

set_cursor(w, x, y) == [w EXCEPT !.cursor.x = x, !.cursor.y = y]

\* scroll_up without clearing the rows at the bottom
scroll_up_keep(w, amount) ==
    LET moved == [w EXCEPT !.buffer =
                     [y \in Rows |-> IF y + amount \in Rows
                                     THEN w.buffer[y + amount]
                                     ELSE w.buffer[y]]]
    IN  IF amount > TERM_HEIGHT \/ w.cursor.y < amount THEN Panic(moved)
        ELSE Done([moved EXCEPT !.cursor.y = @ - amount])

\* the rows amount..24 are copied upwards in ascending order, the last
\* amount rows are cleared, the cursor row is lowered by amount
scroll_up(w, amount) ==
    LET moved == [w EXCEPT !.buffer =
                     [y \in Rows |-> IF y + amount \in Rows
                                     THEN w.buffer[y + amount]
                                     ELSE w.buffer[y]]]
        cleared == IF amount > TERM_HEIGHT THEN Panic(moved)
                   ELSE clear_rows(moved,
                            (TERM_HEIGHT - amount)..(TERM_HEIGHT - 1))
    IN  IF ~cleared.ok \/ w.cursor.y < amount THEN Panic(cleared.w)
        ELSE Done([cleared.w EXCEPT !.cursor.y = @ - amount])

\* newline that never scrolls
newline_noscroll(w) ==
    Done([w EXCEPT !.cursor.y = @ + 1, !.cursor.x = 0])

newline(w) ==
    LET s == IF w.cursor.y >= TERM_HEIGHT - 1 THEN scroll_up(w, 1)
             ELSE Done(w)
    IN  IF ~s.ok THEN s
        ELSE Done([s.w EXCEPT !.cursor.y = @ + 1, !.cursor.x = 0])

write_byte(w, character) ==
    IF character = Newline \/ w.cursor.x >= TERM_WIDTH - 1
    THEN newline(w)
    ELSE IF w.cursor.y \notin Rows \/ w.cursor.x \notin Columns
    THEN Panic(w)
    ELSE Done([w EXCEPT
                  !.buffer[w.cursor.y][w.cursor.x] =
                      Cell(character, w.cursor.color),
                  !.cursor.x = @ + 1])

NoVgaOp == [op |-> "none", byte |-> 0, x |-> 0, y |-> 0, ok |-> TRUE,
            writes |-> 0]

\* no writer is looked at
VgaIdle == writer = Writer_vga(<<>>) /\ vgaOp = NoVgaOp

----------------------------------------------------------------------------
(* Boot information handed to BumpAllocator::new (multiboot.rs)            *)

HalfFrame == FRAME_SIZE \div 2

\* Addresses and sizes are usize; the sums below stay far from 2^64 and no
\* area has length 0, so start + size - 1 neither wraps nor underflows.

\* MemoryArea { address, length, kind }: areas that start on and off a frame
\* boundary, span one or two frames, overlap, share a start address and
\* leave frame 2 uncovered
AreaStarts == {0, FRAME_SIZE + HalfFrame, 3 * FRAME_SIZE}
AreaLengths == {HalfFrame, FRAME_SIZE + HalfFrame}
AreaSet ==
    [address : AreaStarts, length : AreaLengths, kind : {1}]
        \cup [address : AreaStarts, length : {FRAME_SIZE + HalfFrame}, kind : {2}]

\* Section { address, size }
SectionSet ==
    [address : {FRAME_SIZE, 3 * FRAME_SIZE}, size : {HalfFrame, FRAME_SIZE}]

\* MultibootInfo::start() and size(): the header is 8 byte aligned and
\* total_size is not zero
InfoSet ==
    [start : {8, 2 * FRAME_SIZE + 8}, size : {16, FRAME_SIZE}]

SeqsUpTo(S, n) == UNION {[1..k -> S] : k \in 1..n}

Permute(s, p) == [i \in DOMAIN s |-> s[p[i]]]

Perms(n) == {p \in [1..n -> 1..n] : \A i, j \in 1..n : p[i] = p[j] => i = j}

NoCall == [op |-> "none", result |-> None, retries |-> 0, outcome |-> "none"]

\* the page of the address 0, no index taken yet
Page0 == {}
NoIndices == <<>>

\* no entry and no table is looked at
NoEntryOp == [op |-> "none", before |-> {}, frame |-> {}, flags |-> {}]
EntryIdle == entry = {} /\ entryOp = NoEntryOp

TableIdle == mem = <<>> /\ table = P4Table /\ tableOp = NoTableOp

Init ==
    /\ \E areas \in SeqsUpTo(AreaSet, MaxAreas),
          info \in InfoSet,
          sections \in SeqsUpTo(SectionSet, 2) :
         \E p \in Perms(Len(areas)) :
            /\ allocator = BumpAllocator_new(info, areas, sections)
            /\ other = BumpAllocator_new(info, Permute(areas, p), sections)
    /\ returned = <<>>
    /\ otherReturned = <<>>
    /\ last = NoCall
    /\ panicked = FALSE
    /\ page = Page0
    /\ indices = NoIndices
    /\ EntryIdle
    /\ TableIdle
    /\ VgaIdle

\* one call of allocate() on the allocator, and the same call on the
\* allocator built from the permuted memory map
DoAllocate ==
    LET r == allocate(allocator)
        o == allocate(other)
    IN  /\ allocator' = r.alloc
        /\ returned' = Append(returned, r.result)
        /\ last' = [op |-> "allocate", result |-> r.result,
                    retries |-> r.retries, outcome |-> r.outcome]
        /\ other' = o.alloc
        /\ otherReturned' = Append(otherReturned, o.result)
        /\ UNCHANGED <<panicked, pageVars>>

Allocate ==
    /\ ~panicked
    /\ Len(returned) < MaxCalls
    /\ DoAllocate

\* frames a caller may pass to deallocate()
FrameArgs == 0..5

Deallocate ==
    /\ ~panicked
    /\ \E frame \in FrameArgs :
         LET d == deallocate(allocator, frame)
         IN  /\ allocator' = d.alloc
             /\ panicked' = d.panicked
             /\ last' = [op |-> "deallocate", result |-> None, retries |-> 0,
                         outcome |-> IF d.panicked THEN "panic" ELSE "returned"]
    /\ UNCHANGED <<other, returned, otherReturned, pageVars>>

Next == Allocate \/ Deallocate

Spec == Init /\ [][Next]_vars

----------------------------------------------------------------------------
(* One usable area [0, 0x100000), boot information in frame 0, kernel      *)
(* sections from 0xa000 to 0x13800 (frames 10 to 19)                       *)

ScenarioAreas == <<[address |-> 0, length |-> 1048576, kind |-> 1]>>
ScenarioInfo == [start |-> 8, size |-> 64]
ScenarioSections == <<[address |-> 49152, size |-> 30720],
                      [address |-> 40960, size |-> 8192]>>

InitScenario ==
    /\ allocator = BumpAllocator_new(ScenarioInfo, ScenarioAreas, ScenarioSections)
    /\ other = allocator
    /\ returned = <<>>
    /\ otherReturned = <<>>
    /\ last = NoCall
    /\ panicked = FALSE
    /\ page = Page0
    /\ indices = NoIndices
    /\ EntryIdle
    /\ TableIdle
    /\ VgaIdle

ScenarioAllocate ==
    /\ Len(returned) < ScenarioCalls
    /\ DoAllocate

NextScenario == ScenarioAllocate

SpecScenario == InitScenario /\ [][NextScenario]_vars

----------------------------------------------------------------------------
(* Pages and their table indices                                           *)

\* bits of the virtual addresses tried: the ends of the offset, of the four
\* index fields and of the sign extension
AddressBits == {0, 11, 12, 20, 21, 29, 30, 38, 39, 47, 48, 63}

InitPage ==
    /\ allocator = BumpAllocator_new(ScenarioInfo, ScenarioAreas, ScenarioSections)
    /\ other = allocator
    /\ returned = <<>>
    /\ otherReturned = <<>>
    /\ last = NoCall
    /\ panicked = FALSE
    /\ \E address \in SUBSET AddressBits : page = Page_containing(address)
    /\ indices = NoIndices
    /\ EntryIdle
    /\ TableIdle
    /\ VgaIdle

\* page_table_index(level) for the levels 1 to 4, in turn
TakeIndex ==
    /\ Len(indices) < 4
    /\ indices' = Append(indices, page_table_index(page, Len(indices) + 1))
    /\ UNCHANGED <<allocVars, page, entryVars, tableVars, vgaVars>>

NextPage == TakeIndex

SpecPage == InitPage /\ [][NextPage]_vars

----------------------------------------------------------------------------
(* Page table entries                                                      *)

\* bits of the entries, flags and frame numbers tried: PRESENT, WRITABLE,
\* HUGE, both ends of the address field, the first bit above it and the
\* last bit of the word
EntryBits == {0, 7, 12, 51, 52, 63}
FlagBits == {0, 1, 7, 12, 63}
FrameIdBits == {39, 40}

AllocScenario ==
    /\ allocator = BumpAllocator_new(ScenarioInfo, ScenarioAreas, ScenarioSections)
    /\ other = allocator
    /\ returned = <<>>
    /\ otherReturned = <<>>
    /\ last = NoCall
    /\ panicked = FALSE

InitEntry ==
    /\ AllocScenario
    /\ page = Page0
    /\ indices = NoIndices
    /\ entry \in SUBSET EntryBits
    /\ entryOp = NoEntryOp
    /\ TableIdle
    /\ VgaIdle

EntrySet ==
    /\ \E frame \in SUBSET FrameIdBits, flags \in SUBSET FlagBits :
          /\ entry' = Entry_set(entry, frame, flags)
          /\ entryOp' = [op |-> "set", before |-> entry,
                         frame |-> frame, flags |-> flags]
    /\ UNCHANGED <<allocVars, page, indices, tableVars, vgaVars>>

EntrySetUnused ==
    /\ entry' = Entry_set_unused(entry)
    /\ entryOp' = [op |-> "set_unused", before |-> entry,
                   frame |-> {}, flags |-> {}]
    /\ UNCHANGED <<allocVars, page, indices, tableVars, vgaVars>>

NextEntry == EntrySet \/ EntrySetUnused

SpecEntry == InitEntry /\ [][NextEntry]_vars

----------------------------------------------------------------------------
(* Page tables and the active directory                                    *)

\* frames the allocator can hand out for new tables
MaxTableFrames == 2

\* Boot: the boot information is in frame 0, the kernel image with the boot
\* page tables in the frames 1 to 4, the frames from 5 on are free.
TableInfo == [start |-> 8, size |-> 16]
TableSections == <<[address |-> FRAME_SIZE, size |-> 3 * FRAME_SIZE + HalfFrame]>>
TableAreas(n) == <<[address |-> 0, length |-> (5 + n) * FRAME_SIZE, kind |-> 1]>>

TableFrames == 1..(4 + MaxTableFrames)

EntryOf(frame, flags) == Entry_set({}, NatToBits(frame), flags)

\* the top level table with its last entry pointing back at itself
BootP4 == [ZeroTable EXCEPT ![511] = EntryOf(P4Frame, NewTableFlags)]

\* what a frame not yet used as a table may hold in every entry
GarbageEntries == {{0, 1, 7, 14}, {1, 63}}

\* "bare": only the recursive entry. "mapped": P4[0] -> P3 (frame 2),
\* P3[0] -> P2 (frame 3), P3[511] not present but not zero,
\* P2[0] -> P1 (frame 4), P2[511] a huge page, P1[0] the page 0 on frame 9.
BootMemory(kind, g) ==
    [f \in TableFrames |->
        IF f = P4Frame
        THEN IF kind = "mapped"
             THEN [BootP4 EXCEPT ![0] = EntryOf(2, NewTableFlags)]
             ELSE BootP4
        ELSE IF kind = "mapped" /\ f = 2
        THEN [ZeroTable EXCEPT ![0] = EntryOf(3, NewTableFlags),
                               ![511] = {1}]
        ELSE IF kind = "mapped" /\ f = 3
        THEN [ZeroTable EXCEPT ![0] = EntryOf(4, NewTableFlags),
                               ![511] = EntryOf(512, {0, 1, 7})]
        ELSE IF kind = "mapped" /\ f = 4
        THEN [ZeroTable EXCEPT ![0] = EntryOf(9, NewTableFlags)]
        ELSE IF f <= 4 THEN ZeroTable
        ELSE [i \in Indices |-> g]]

\* table indices, pages, frames and flags the callers use
IndexSet == {0, 511}
\* the page of address 0 (mapped by the "mapped" boot) and of 0x400000
PageArgs == {{}, {10}}
FlagArgs == {ENTRY_WRITABLE}
FrameArg == NatToBits(9)

InitTable ==
    /\ \E n \in 0..MaxTableFrames :
          allocator = BumpAllocator_new(TableInfo, TableAreas(n), TableSections)
    /\ other = allocator
    /\ returned = <<>>
    /\ otherReturned = <<>>
    /\ last = NoCall
    /\ panicked = FALSE
    /\ page = Page0
    /\ indices = NoIndices
    /\ EntryIdle
    /\ \E kind \in {"bare", "mapped"}, g \in GarbageEntries :
          mem = BootMemory(kind, g)
    /\ table = P4Table
    /\ tableOp = NoTableOp
    /\ VgaIdle

tableRest == <<other, returned, otherReturned, last, page, indices, entryVars,
               vgaVars>>

\* ActiveDirectory::p4_mut
TableP4 ==
    /\ ~panicked
    /\ table # P4Table
    /\ table' = P4Table
    /\ tableOp' = [NoTableOp EXCEPT !.op = "p4_mut"]
    /\ UNCHANGED <<allocator, panicked, mem, tableRest>>

TableIndex ==
    /\ ~panicked
    /\ table.level >= 2
    /\ \E i \in IndexSet, op \in {"index", "index_mut"} :
          LET r == Table_index(mem, table, i)
          IN  /\ table' = IF r.some THEN [addr |-> r.addr, level |-> r.level]
                          ELSE table
              /\ tableOp' = [NoTableOp EXCEPT !.op = op, !.index = i,
                                              !.result = r, !.outcome = "ok"]
    /\ UNCHANGED <<allocator, panicked, mem, tableRest>>

TableCreate ==
    /\ ~panicked
    /\ table.level >= 2
    /\ \E i \in IndexSet :
          LET c == Table_create(mem, allocator, table, i)
          IN  /\ mem' = c.mem
              /\ allocator' = c.alloc
              /\ panicked' = (c.outcome \in {"panic", "fault"})
              /\ table' = IF c.result.some
                          THEN [addr |-> c.result.addr, level |-> c.result.level]
                          ELSE table
              /\ tableOp' = [NoTableOp EXCEPT !.op = "create", !.index = i,
                                 !.result = c.result, !.outcome = c.outcome,
                                 !.frame = c.frame,
                                 !.stale = IF c.outcome = "created"
                                           THEN mem[c.frame][0] ELSE {}]
    /\ UNCHANGED tableRest

\* the entries read when walking from the top level table by the level 4,
\* 3, 2 and 1 indices of a page; the walk ends where an entry has no table
RECURSIVE WalkEntries(_, _, _, _)
WalkEntries(m, frame, pg, level) ==
    LET e == m[frame][VaddrIndex(Page_start(pg), level)]
        next == FrameNumber(Entry_pointed_frame(e).id)
    IN  IF level = 1 \/ ~HasTable(e) \/ next \notin DOMAIN m THEN <<e>>
        ELSE <<e>> \o WalkEntries(m, next, pg, level - 1)

\* the level 1 entry of a page, <<>> where the walk does not reach it
LeafEntry(m, pg) ==
    LET w == WalkEntries(m, P4Frame, pg, 4)
    IN  IF Len(w) = 4 THEN <<w[4]>> ELSE <<>>

MappedFrame(m, pg) ==
    IF LeafEntry(m, pg) = <<>> THEN NoFrame
    ELSE Entry_pointed_frame(LeafEntry(m, pg)[1])

Map ==
    /\ ~panicked
    /\ \E pg \in PageArgs, flags \in FlagArgs :
          LET r == ActiveDirectory_map(mem, allocator, pg, FrameArg, flags)
          IN  /\ mem' = r.mem
              /\ allocator' = r.alloc
              /\ tableOp' = [NoTableOp EXCEPT !.op = "map", !.pg = pg,
                                 !.arg = FrameArg, !.flags = flags,
                                 !.outcome = "ok",
                                 !.mapped = MappedFrame(mem, pg)]
    /\ UNCHANGED <<panicked, table, tableRest>>

MapToAny ==
    /\ ~panicked
    /\ \E pg \in PageArgs, flags \in FlagArgs :
          LET r == ActiveDirectory_map_to_any(mem, allocator, pg, flags)
          IN  /\ mem' = r.mem
              /\ allocator' = r.alloc
              /\ tableOp' = [NoTableOp EXCEPT !.op = "map_to_any", !.pg = pg,
                                 !.flags = flags, !.outcome = "ok",
                                 !.mapped = MappedFrame(mem, pg)]
    /\ UNCHANGED <<panicked, table, tableRest>>

IdentityMap ==
    /\ ~panicked
    /\ \E flags \in FlagArgs :
          LET r == ActiveDirectory_identity_map(mem, allocator, FrameArg, flags)
          IN  /\ mem' = r.mem
              /\ allocator' = r.alloc
              /\ tableOp' = [NoTableOp EXCEPT !.op = "identity_map",
                                 !.pg = FrameArg, !.arg = FrameArg,
                                 !.flags = flags, !.outcome = "ok",
                                 !.mapped = MappedFrame(mem, FrameArg)]
    /\ UNCHANGED <<panicked, table, tableRest>>

Unmap ==
    /\ ~panicked
    /\ \E pg \in PageArgs :
          LET r == ActiveDirectory_unmap(mem, allocator, pg)
          IN  /\ mem' = r.mem
              /\ allocator' = r.alloc
              /\ tableOp' = [NoTableOp EXCEPT !.op = "unmap", !.pg = pg,
                                 !.outcome = "ok",
                                 !.mapped = MappedFrame(mem, pg)]
    /\ UNCHANGED <<panicked, table, tableRest>>

NextTable ==
    \/ TableP4 \/ TableIndex \/ TableCreate
    \/ Map \/ MapToAny \/ IdentityMap \/ Unmap

SpecTable == InitTable /\ [][NextTable]_vars

----------------------------------------------------------------------------
(* The writer of the VGA text driver                                       *)

\* write_byte calls per run
MaxWrites == 4

\* what the boot loader left on the screen: every row its own character,
\* light gray on black
BootBuffer ==
    [y \in Rows |-> [x \in Columns |->
        Cell(33 + y, CombinedColor_new(LightGray, Black))]]

\* a newline and two letters
Bytes == {Newline, 65, 66}

\* cursor positions inside the screen: first, last but one and last
CursorXs == {0, TERM_WIDTH - 2, TERM_WIDTH - 1}
CursorYs == {0, TERM_HEIGHT - 2, TERM_HEIGHT - 1}

InitVga ==
    /\ AllocScenario
    /\ page = Page0
    /\ indices = NoIndices
    /\ EntryIdle
    /\ TableIdle
    /\ writer = Writer_vga(BootBuffer)
    /\ vgaOp = NoVgaOp

vgaRest == <<allocVars, page, indices, entryVars, tableVars>>

\* vga::init: clear_screen, then set_cursor(0, 0)
VgaInit ==
    /\ vgaOp.op = "none"
    /\ LET c == clear_screen(writer)
       IN  /\ writer' = set_cursor(c.w, 0, 0)
           /\ vgaOp' = [NoVgaOp EXCEPT !.op = "init", !.ok = c.ok]
    /\ UNCHANGED vgaRest

\* set_cursor to a position inside the screen, before the writes
SetCursor ==
    /\ vgaOp.ok
    /\ vgaOp.op \in {"none", "init"}
    /\ \E x \in CursorXs, y \in CursorYs :
          /\ writer' = set_cursor(writer, x, y)
          /\ vgaOp' = [NoVgaOp EXCEPT !.op = "set_cursor", !.x = x, !.y = y]
    /\ UNCHANGED vgaRest

\* one step of write_str's loop
WriteByte ==
    /\ vgaOp.ok
    /\ vgaOp.writes < MaxWrites
    /\ \E character \in Bytes :
          LET r == write_byte(writer, character)
          IN  /\ writer' = r.w
              /\ vgaOp' = [op |-> "write_byte", byte |-> character,
                           x |-> writer.cursor.x, y |-> writer.cursor.y,
                           ok |-> r.ok, writes |-> vgaOp.writes + 1]
    /\ UNCHANGED vgaRest

NextVga == VgaInit \/ SetCursor \/ WriteByte

SpecVga == InitVga /\ [][NextVga]_vars

----------------------------------------------------------------------------
(* Properties of the frame allocator                                       *)

ReturnedFrames == {returned[i].id : i \in {j \in DOMAIN returned : returned[j].some}}

SawNone == \E i \in DOMAIN returned : ~returned[i].some

InInvalidRegion(f) ==
    \E k \in DOMAIN allocator.invalid_regions :
        /\ allocator.invalid_regions[k].start <= f
        /\ f <= allocator.invalid_regions[k].end

\* the frames an area spans, from the frame of its first byte to the frame of
\* its last byte
AreaFrames(area) ==
    (area.address \div FRAME_SIZE)..((area.address + area.length - 1) \div FRAME_SIZE)

UsableAreas ==
    {i \in DOMAIN allocator.memory_areas :
        MemoryArea_kind(allocator.memory_areas[i]) = "Usable"}

UnusableAreas == DOMAIN allocator.memory_areas \ UsableAreas

EligibleFrames ==
    {f \in UNION {AreaFrames(allocator.memory_areas[i]) : i \in UsableAreas} :
        ~InInvalidRegion(f)}

\* C1: the frames returned by successive allocate() calls are strictly
\* increasing in frame index, so no frame is returned twice.
C1_StrictlyIncreasing ==
    \A i, j \in DOMAIN returned :
        (i < j /\ returned[i].some /\ returned[j].some)
            => returned[i].id < returned[j].id

\* at least three frames were returned, with a jump over some frames
C1_Witness ==
    /\ Cardinality(ReturnedFrames) >= 3
    /\ \E i \in DOMAIN returned :
          /\ i + 1 \in DOMAIN returned
          /\ returned[i].some /\ returned[i + 1].some
          /\ returned[i + 1].id > returned[i].id + 1

\* C2: no returned frame lies inside the boot information region or inside
\* the kernel image region, both closed intervals of frames.
C2_NotReserved ==
    \A f \in ReturnedFrames : ~InInvalidRegion(f)

\* the two regions are adjacent or overlap, frames were returned on both
\* sides of them
C2_Witness ==
    LET r1 == allocator.invalid_regions[1]
        r2 == allocator.invalid_regions[2]
    IN  /\ r1 # r2
        /\ r1.start <= r2.end + 1 /\ r2.start <= r1.end + 1
        /\ \E f, g \in ReturnedFrames :
              /\ f < r1.start /\ f < r2.start
              /\ g > r1.end /\ g > r2.end

\* C3: no returned frame lies inside a memory area that the boot
\* information marks unusable.
C3_NotUnusable ==
    \A f \in ReturnedFrames :
        \A i \in UnusableAreas : f \notin AreaFrames(allocator.memory_areas[i])

\* C4: once allocate() has returned None, every later allocate() returns
\* None and leaves the allocator as it was.
C4_StickyExhaustion ==
    [][(last.op = "allocate" /\ ~last.result.some /\ last'.op = "allocate")
          => (~last'.result.some /\ allocator' = allocator)]_vars

\* frames were returned, then None twice
C4_Witness ==
    /\ Len(returned) >= 3
    /\ returned[1].some
    /\ ~returned[Len(returned)].some
    /\ ~returned[Len(returned) - 1].some

\* C5: when allocate() returns None the cursor is past the last frame of
\* every usable area, and every frame of a usable area outside both invalid
\* regions has been returned before.
C5_NothingSkipped ==
    SawNone =>
        /\ EligibleFrames \subseteq ReturnedFrames
        /\ \A i \in UsableAreas :
              allocator.next_free_frame >
                  (allocator.memory_areas[i].address
                     + allocator.memory_areas[i].length - 1) \div FRAME_SIZE

\* exhausted after frames of two usable areas with a hole between them, and
\* an invalid region inside one of them
C5_Witness ==
    /\ SawNone
    /\ Cardinality(UsableAreas) = 2
    /\ Cardinality(EligibleFrames) >= 2
    /\ \E f \in EligibleFrames : f + 1 \notin EligibleFrames /\ \E g \in EligibleFrames : g > f + 1
    /\ \E i \in UsableAreas : \E f \in AreaFrames(allocator.memory_areas[i]) : InInvalidRegion(f)

C8_Terminates ==
    last.op = "allocate" =>
        /\ last.outcome \in {"frame", "none"}
        /\ last.outcome = "frame" <=> last.result.some
        /\ last.retries <= 2 * Len(allocator.invalid_regions) + 1

\* a call that retried at least three times
C8_Witness ==
    last.op = "allocate" /\ last.retries >= 3 /\ last.outcome = "frame"

\* C9: the results do not depend on the order of the memory map.
C9_OrderIndependent == returned = otherReturned

\* two maps in different order whose areas start at the same address and
\* overlap
C9_Witness ==
    /\ allocator.memory_areas # other.memory_areas
    /\ Len(allocator.memory_areas) = 2
    /\ allocator.memory_areas[1].address = allocator.memory_areas[2].address
    /\ allocator.memory_areas[1].length # allocator.memory_areas[2].length
    /\ Cardinality(ReturnedFrames) >= 2
    /\ SawNone

\* C6: in the 1 MiB scenario the calls return the frames 1 to 9, then 20 to
\* 255, then None for ever.
C6_Scenario ==
    /\ allocator.invalid_regions = <<[start |-> 0, end |-> 0],
                                     [start |-> 10, end |-> 19]>>
    /\ \A i \in DOMAIN returned :
          returned[i] = IF i <= 9 THEN Some(i)
                        ELSE IF i <= 245 THEN Some(i + 10)
                        ELSE None

\* all 246 frames were handed out and more calls were made
C6_Witness ==
    /\ Len(returned) >= 258
    /\ Cardinality(ReturnedFrames) = 245
    /\ ~last.result.some

----------------------------------------------------------------------------
(* Properties of pages                                                     *)

\* C10: the index of level L is (id >> (L-1)*9) & 0x1ff, and the four
\* indices placed at the bits 12+9*(L-1) recombine to the 48 bit start
\* address of the page.
C10_IndicesRecombine ==
    Len(indices) = 4 =>
        /\ \A L \in 1..4 : indices[L] = BitAnd(Shr(page, (L - 1) * 9), Mask1ff)
        /\ UNION {Shl(indices[L], 12 + 9 * (L - 1)) : L \in 1..4}
              = BitAnd(Page_start(page), 0..47)

----------------------------------------------------------------------------
(* Properties of page table entries                                        *)

\* C11 as stated: for any frame and any flags with PRESENT set, after
\* set(f, fl) the entry is present and pointed_frame() is Some(f).
C11_RoundTripAnyFlags ==
    (entryOp.op = "set" /\ 0 \in entryOp.flags) =>
        /\ Entry_is_present(entry)
        /\ Entry_pointed_frame(entry) = Some(entryOp.frame)

\* C11 amended: the round trip holds for a frame whose address fits the
\* bits 12 to 51 (id below 2^40) and flags with PRESENT set and no bit in
\* 12 to 51.
C11_RoundTrip ==
    (/\ entryOp.op = "set"
     /\ 0 \in entryOp.flags
     /\ entryOp.flags \cap (12..51) = {}
     /\ entryOp.frame \subseteq 0..39) =>
        /\ Entry_is_present(entry)
        /\ Entry_pointed_frame(entry) = Some(entryOp.frame)

\* the highest frame of the address field, set with PRESENT, HUGE and bit 63
\* over an entry that held something else
C11_Witness ==
    /\ entryOp.op = "set"
    /\ entryOp.frame = {39}
    /\ entryOp.flags = {0, 1, 7, 63}
    /\ entryOp.before # {}

\* C12: after set_unused() the entry is the zero pattern, is_unused() is
\* true and is_present(), is_huge() and pointed_frame() report nothing;
\* is_unused() is true of the zero pattern only.
C12_SetUnused ==
    /\ entryOp.op = "set_unused" =>
          /\ entry = {}
          /\ Entry_is_unused(entry)
          /\ ~Entry_is_present(entry)
          /\ ~Entry_is_huge(entry)
          /\ ~Entry_pointed_frame(entry).some
    /\ Entry_is_unused(entry) <=> entry = {}

\* set_unused() on an entry that was present, huge and pointed to a frame
C12_Witness ==
    /\ entryOp.op = "set_unused"
    /\ {0, 7, 12, 51} \subseteq entryOp.before

\* C13: pointed_frame() is Some exactly when bit 0 is set, whatever bit 7
\* and the other bits are, and the frame is the bits 12 to 51 of the entry
\* moved down by 12.
C13_PointedFrame ==
    /\ Entry_pointed_frame(entry).some <=> 0 \in entry
    /\ 0 \in entry =>
          Entry_pointed_frame(entry).id
              = {b - 12 : b \in {x \in entry : x >= 12 /\ x <= 51}}

\* a present, huge entry with bits inside and outside the address field
C13_Witness ==
    /\ {0, 7, 12, 51, 52, 63} \subseteq entry
    /\ Entry_pointed_frame(entry) = Some({0, 39})

----------------------------------------------------------------------------
(* Properties of Table (page.rs)                                           *)

\* the entry a call on the current table reads at index i
TableEntry(i) == mem[TableFrame(mem, table.addr)][i]

\* C14: on a level 2, 3 or 4 table index(i) and index_mut(i) return the table
\* one level below exactly when entry i has bit 0 (PRESENT) set and bit 7
\* (HUGE) clear, absent otherwise, and no entry of any table changes.
C14_IndexExact ==
    [][tableOp'.op \in {"index", "index_mut"} =>
          LET e == TableEntry(tableOp'.index)
              r == tableOp'.result
          IN  /\ table.level \in 2..4
              /\ r.some <=> (0 \in e /\ 7 \notin e)
              /\ r.some => /\ r.level = table.level - 1
                           /\ TableFrame(mem, r.addr) =
                                  FrameNumber(Shr(BitAnd(e, AddrMask), 12))
              /\ ~r.some => r = NoTable
              /\ mem' = mem]_vars

\* index_mut(511) on the level 2 table whose entry 511 is a present huge page
C14_Witness ==
    /\ tableOp.op = "index_mut"
    /\ tableOp.index = 511
    /\ table.level = 2
    /\ TableEntry(511) = EntryOf(512, {0, 1, 7})
    /\ ~tableOp.result.some

\* C15: when entry i has no table below it and the allocator has a frame,
\* create(i) makes exactly the one allocate call, sets entry i to the address
\* of the frame f with exactly PRESENT | WRITABLE, changes no other entry of
\* an existing table, and returns the table in f with all 512 entries zero.
C15_CreateFresh ==
    [][(/\ tableOp'.op = "create"
        /\ ~(0 \in TableEntry(tableOp'.index) /\ 7 \notin TableEntry(tableOp'.index))
        /\ allocate(allocator).result.some) =>
          LET i == tableOp'.index
              f == allocate(allocator).result.id
              parent == TableFrame(mem, table.addr)
              r == tableOp'.result
          IN  /\ allocator' = allocate(allocator).alloc
              /\ allocator'.next_free_frame = f + 1
              /\ mem'[parent][i] = BitOr(Shl(NatToBits(f), 12), {0, 1})
              /\ r.some /\ r.level = table.level - 1
              /\ TableFrame(mem', r.addr) = f
              /\ \A j \in Indices : mem'[f][j] = {}
              /\ \A g \in DOMAIN mem, j \in Indices :
                    (g # f /\ <<g, j>> # <<parent, i>>) => mem'[g][j] = mem[g][j]
              /\ ~panicked']_vars

\* a table was created over a present huge entry in a frame that held a
\* stale pattern with the PRESENT bit set
C15_Witness ==
    /\ tableOp.op = "create"
    /\ tableOp.outcome = "created"
    /\ tableOp.index = 511
    /\ tableOp.stale = {0, 1, 7, 14}
    /\ table.level = 1
    /\ mem[3][511] = EntryOf(tableOp.frame, {0, 1})
    /\ \A j \in Indices : mem[tableOp.frame][j] = {}

\* C16: when entry i has no table below it and the allocator is exhausted,
\* create(i) is fatal, returns no table, and no entry of any table changes.
C16_CreateExhausted ==
    [][(/\ tableOp'.op = "create"
        /\ ~(0 \in TableEntry(tableOp'.index) /\ 7 \notin TableEntry(tableOp'.index))
        /\ ~allocate(allocator).result.some) =>
          /\ panicked'
          /\ ~tableOp'.result.some
          /\ mem' = mem]_vars

\* the allocator ran out after handing out frames for earlier tables
C16_Witness ==
    /\ tableOp.op = "create"
    /\ tableOp.outcome = "panic"
    /\ panicked
    /\ allocator.next_free_frame > 5

----------------------------------------------------------------------------
(* Properties of ActiveDirectory (page.rs)                                 *)

\* C17: after map(page, frame, flags) the walk by the page's level 4, 3 and 2
\* indices passes present, writable, non-huge entries and the level 1 entry
\* of the page holds the frame's address with flags | PRESENT.
C17_MapEstablishes ==
    tableOp.op = "map" =>
        LET w == WalkEntries(mem, P4Frame, tableOp.pg, 4)
        IN  /\ Len(w) = 4
            /\ \A k \in 1..3 : {0, 1} \subseteq w[k] /\ 7 \notin w[k]
            /\ w[4] = BitOr(Shl(tableOp.arg, 12), BitOr(tableOp.flags, {0}))

\* C18: after map_to_any(page, flags) the level 1 entry of the page is
\* present, carries the flags, and points to a frame the allocator handed
\* out (a frame below its cursor and outside the kernel image).
C18_MapToAnyMaps ==
    tableOp.op = "map_to_any" =>
        LET leaf == LeafEntry(mem, tableOp.pg)
        IN  /\ leaf # <<>>
            /\ 0 \in leaf[1]
            /\ tableOp.flags \subseteq leaf[1]
            /\ Entry_pointed_frame(leaf[1]).some
            /\ FrameNumber(Entry_pointed_frame(leaf[1]).id) \in
                   5..(allocator.next_free_frame - 1)

\* C19: after unmap(page) of a page that was mapped to a frame f, the level 1
\* entry of the page is unused and f went to the allocator by deallocate(f).
C19_UnmapReverses ==
    (tableOp.op = "unmap" /\ tableOp.mapped.some) =>
        /\ LeafEntry(mem, tableOp.pg) = <<{}>>
        /\ last.op = "deallocate"

\* C20: unmap of a page that is not mapped changes no entry of any table and
\* is not fatal; no unmap changes an entry of a level 2, 3 or 4 table (here:
\* any entry other than the level 1 entry of the page).
C20_UnmapKeeps ==
    [][tableOp'.op = "unmap" =>
          LET w == WalkEntries(mem, P4Frame, tableOp'.pg, 4)
              leafTable == IF Len(w) = 4
                           THEN FrameNumber(Entry_pointed_frame(w[3]).id)
                           ELSE 0
              leafIndex == VaddrIndex(Page_start(tableOp'.pg), 1)
          IN  /\ ~MappedFrame(mem, tableOp'.pg).some =>
                    (mem' = mem /\ ~panicked' /\ tableOp'.outcome = "ok")
              /\ \A g \in DOMAIN mem :
                    IF g = leafTable
                    THEN \A j \in Indices \ {leafIndex} : mem'[g][j] = mem[g][j]
                    ELSE mem'[g] = mem[g]]_vars

\* unmap of the page of 0x400000, never mapped, while the page 0 is mapped
\* and a table created earlier is empty
C20_Witness ==
    /\ tableOp.op = "unmap"
    /\ tableOp.pg = {10}
    /\ ~tableOp.mapped.some
    /\ MappedFrame(mem, {}).some
    /\ \E g \in 5..(4 + MaxTableFrames), g2 \in DOMAIN mem, j \in Indices :
          /\ mem[g] = ZeroTable
          /\ mem[g2][j] = EntryOf(g, {0, 1})

\* the four 9 bit indices of a virtual address, level 4 first
AddrIndices(addr) == <<VaddrIndex(addr, 4), VaddrIndex(addr, 3),
                       VaddrIndex(addr, 2), VaddrIndex(addr, 1)>>

\* C21: the top level table is addressed at the indices (511, 511, 511, 511)
\* with offset 0 (0xfffffffffffff000); from a table at the indices
\* (a, b, c, d) index, index_mut and create address the table below entry i
\* at (b, c, d, i), offset 0, bits 48..63 all set, and from the top level
\* table that address reaches the frame entry i points to.
C21_RecursiveAddress ==
    [][/\ tableOp'.op = "p4_mut" =>
             /\ table'.addr = 12..63
             /\ AddrIndices(table'.addr) = <<511, 511, 511, 511>>
             /\ TableFrame(mem', table'.addr) = P4Frame
       /\ (tableOp'.op \in {"index", "index_mut", "create"}
              /\ tableOp'.result.some) =>
             LET t == AddrIndices(table.addr)
                 r == tableOp'.result.addr
             IN  /\ AddrIndices(r) = <<t[2], t[3], t[4], tableOp'.index>>
                 /\ r \cap (0..11) = {}
                 /\ 48..63 \subseteq r
                 /\ table.level = 4 =>
                       /\ AddrIndices(r) = <<511, 511, 511, tableOp'.index>>
                       /\ TableFrame(mem', r) = FrameNumber(
                              Entry_pointed_frame(mem'[P4Frame][tableOp'.index]).id)]_vars

\* the level 2 table below the entries 0 of the level 4 and level 3 tables,
\* addressed at (511, 511, 0, 0)
C21_Witness ==
    /\ tableOp.op = "index"
    /\ tableOp.result.some
    /\ table.level = 2
    /\ AddrIndices(table.addr) = <<511, 511, 0, 0>>
    /\ TableFrame(mem, table.addr) = 3

\* C24: when entry i of a level 2 to 4 table is present and not huge,
\* create(i) returns the table the entry points to, leaves the allocator as
\* it was and changes no entry of any table.
C24_CreateExisting ==
    [][(/\ tableOp'.op = "create"
        /\ 0 \in TableEntry(tableOp'.index)
        /\ 7 \notin TableEntry(tableOp'.index)) =>
          /\ table.level \in 2..4
          /\ allocator' = allocator
          /\ mem' = mem
          /\ ~panicked'
          /\ tableOp'.result.some
          /\ tableOp'.result.level = table.level - 1
          /\ TableFrame(mem, tableOp'.result.addr) = FrameNumber(
                 Entry_pointed_frame(TableEntry(tableOp'.index)).id)]_vars

\* create on an index whose table an earlier create made: the one frame the
\* allocator has handed out is the frame of the table returned
C24_Witness ==
    /\ tableOp.op = "create"
    /\ tableOp.outcome = "found"
    /\ TableFrame(mem, table.addr) = 5
    /\ allocator.next_free_frame = 6

\* C27: when entry i is present before create(i), also as a huge entry, the
\* entry holds the same bits after the call and the allocator is as it was.
C27_CreateKeepsPresent ==
    [][(tableOp'.op = "create" /\ 0 \in TableEntry(tableOp'.index)) =>
          /\ mem'[TableFrame(mem, table.addr)][tableOp'.index] =
                 TableEntry(tableOp'.index)
          /\ allocator' = allocator]_vars

----------------------------------------------------------------------------
(* Further properties of the frame allocator (frame.rs)                    *)

\* the closed frame interval from the frame of the lowest section start to
\* the frame of the last byte of the highest ending section
KernelFrames(sections) ==
    [start |-> SetMin({sections[i].address : i \in DOMAIN sections})
                   \div FRAME_SIZE,
     end   |-> (SetMax({sections[i].address + sections[i].size :
                           i \in DOMAIN sections}) - 1) \div FRAME_SIZE]

\* C25: for every boot information and section list the allocator's two
\* reserved regions can have been built from, the kernel region is exactly
\* the frames from the lowest section start to the last byte of the highest
\* ending section, as the boot information region ends at the frame of the
\* byte start + size - 1.
C25_KernelRegionExact ==
    \A info \in InfoSet, sections \in SeqsUpTo(SectionSet, 2) :
        allocator.invalid_regions =
            <<Region_from_multiboot_info(info),
              Region_from_kernel_sections(sections)>>
        => /\ allocator.invalid_regions[1].end =
                  (info.start + info.size - 1) \div FRAME_SIZE
           /\ allocator.invalid_regions[2] = KernelFrames(sections)

\* C26: every frame allocate() returned lies between the frame of the start
\* address and the frame of the last byte of some memory area.
C26_WithinAnArea ==
    \A f \in ReturnedFrames :
        \E i \in DOMAIN allocator.memory_areas :
            /\ allocator.memory_areas[i].address \div FRAME_SIZE <= f
            /\ f <= (allocator.memory_areas[i].address
                       + allocator.memory_areas[i].length - 1) \div FRAME_SIZE

\* frames were returned on both sides of a frame that is in no area; the
\* cursor came to a reserved region from a returned frame and was moved from
\* the end of that region to the frame in no area
C26_Witness ==
    \E g \in 1..5 :
        /\ \A i \in DOMAIN allocator.memory_areas :
               g \notin AreaFrames(allocator.memory_areas[i])
        /\ \E k \in DOMAIN allocator.invalid_regions :
               /\ allocator.invalid_regions[k].end + 1 = g
               /\ allocator.invalid_regions[k].start - 1 \in ReturnedFrames
        /\ \E f, h \in ReturnedFrames : f < g /\ g < h

----------------------------------------------------------------------------
(* Properties of the VGA writer (driver/vga.rs)                            *)

\* C22: for every byte other than '\n' write_byte sets the cell under the
\* cursor to the byte in the cursor's colour and moves the cursor one cell
\* to the right in the same row.
C22_ByteWritten ==
    [][(vgaOp'.op = "write_byte" /\ vgaOp'.byte # Newline) =>
          /\ writer'.buffer[writer.cursor.y][writer.cursor.x] =
                 Cell(vgaOp'.byte, writer.cursor.color)
          /\ writer'.cursor.x = writer.cursor.x + 1
          /\ writer'.cursor.y = writer.cursor.y]_vars

\* C23: write_byte('\n'), that is newline, puts the cursor at column 0 of the
\* next row and changes no cell; from row 24 it scrolls first: every row
\* 0..23 holds what the row below held, row 24 is spaces in the cursor's
\* colour, and the cursor is at row 24, column 0.
C23_Newline ==
    [][(vgaOp'.op = "write_byte" /\ vgaOp'.byte = Newline) =>
          /\ vgaOp'.ok
          /\ writer'.cursor.x = 0
          /\ writer'.cursor.color = writer.cursor.color
          /\ writer.cursor.y < TERM_HEIGHT - 1 =>
                /\ writer'.cursor.y = writer.cursor.y + 1
                /\ writer'.buffer = writer.buffer
          /\ writer.cursor.y = TERM_HEIGHT - 1 =>
                /\ writer'.cursor.y = TERM_HEIGHT - 1
                /\ \A y \in 0..(TERM_HEIGHT - 2) :
                      writer'.buffer[y] = writer.buffer[y + 1]
                /\ \A x \in Columns :
                      writer'.buffer[TERM_HEIGHT - 1][x] =
                          Cell(Space, writer.cursor.color)]_vars

\* a newline on row 24 after a letter was written there: the letter is now
\* on row 23, row 22 holds the boot loader's row 23, row 24 is blank
C23_Witness ==
    /\ vgaOp.op = "write_byte"
    /\ vgaOp.byte = Newline
    /\ vgaOp.y = TERM_HEIGHT - 1
    /\ vgaOp.x = 1
    /\ writer.cursor.x = 0 /\ writer.cursor.y = TERM_HEIGHT - 1
    /\ writer.buffer[TERM_HEIGHT - 2][0].character \in {65, 66}
    /\ writer.buffer[TERM_HEIGHT - 3] = BootBuffer[TERM_HEIGHT - 2]
    /\ writer.buffer[TERM_HEIGHT - 1][0] = Cell(Space, 15)

\* C28: from the initial writer or a set_cursor inside the screen, after any
\* write_byte calls the cursor has x < 80 and y < 25, and no call indexed
\* outside the buffer or lowered the row below zero.
C28_CursorInScreen ==
    /\ writer.cursor.x \in 0..(TERM_WIDTH - 1)
    /\ writer.cursor.y \in 0..(TERM_HEIGHT - 1)
    /\ vgaOp.ok

\* writes from the last cell of the screen: the first one scrolled, more
\* followed
C28_Witness ==
    /\ vgaOp.op = "write_byte"
    /\ vgaOp.writes = MaxWrites
    /\ vgaOp.y = TERM_HEIGHT - 1
    /\ writer.cursor.y = TERM_HEIGHT - 1
    /\ writer.buffer[TERM_HEIGHT - 1 - MaxWrites] = BootBuffer[TERM_HEIGHT - 1]
    /\ vgaOp.byte = Newline

====
